---- MODULE Spec2Model ----
(***************************************************************************)
(* The attachment pipeline of src/src/file_handler.rs: the process-wide    *)
(* GLOBAL_FILE_CACHE, convert_file_to_part as a state machine whose steps  *)
(* are its suspension points, and the Attachment lifecycle.                *)
(***************************************************************************)
EXTENDS Integers, Sequences, FiniteSets, TLC

VARIABLES
    GLOBAL_FILE_CACHE,  \* HashMap<PathBuf, File>: a function on the cached paths
    poisoned,           \* the cache mutex is poisoned (a holder panicked)
    now,                \* the clock, in seconds
    uploads,            \* remote files the service has created so far
    task,               \* per caller: the locals of its convert_file_to_part call
    files,              \* Vec<Attachment>: the pending attachments, in order
    added               \* attachments created so far (the next one's identity)

vars == <<GLOBAL_FILE_CACHE, poisoned, now, uploads, task, files, added>>

----------------------------------------------------------------------------
\* Bounds of the model.

MaxPending == 1
MaxAdded == 2
TTL == 2

\* Program constants.

MAX_INLINE_SIZE == 20 * 1024 * 1024
TIMEOUT_SECS == 300
SLEEP_SECS == 2

Procs == {1, 2}
SimProcs == {1}

----------------------------------------------------------------------------
\* Content types, as <<top-level type, subtype>>.

GEMINI_MIME ==
    { <<"image", "png">>, <<"image", "jpeg">>, <<"image", "webp">>,
      <<"image", "heic">>, <<"image", "heif">>,
      <<"video", "mp4">>, <<"video", "mpeg">>, <<"video", "quicktime">>,
      <<"video", "avi">>, <<"video", "x-flv">>, <<"video", "mpg">>,
      <<"video", "webm">>, <<"video", "wmv">>, <<"video", "3gpp">>,
      <<"audio", "wav">>, <<"audio", "mp3">>, <<"audio", "aiff">>,
      <<"audio", "aac">>, <<"audio", "ogg">>, <<"audio", "flac">>,
      <<"text", "plain">>, <<"text", "html">>, <<"text", "css">>,
      <<"text", "javascript">>, <<"text", "typescript">>,
      <<"application", "x-javascript">>, <<"application", "json">>,
      <<"text", "xml">>, <<"application", "rtf">>, <<"text", "rtf">>,
      <<"application", "pdf">> }

NoMime == <<"", "">>

\* The files of the model and what mime_guess::from_path(..).first_or_octet_stream()
\* answers for each (by extension).
Paths == {"clip.mp4", "data.zip", "movie.mkv", "scan.bmp"}

MimeGuess(path) ==
    CASE path = "clip.mp4"  -> <<"video", "mp4">>
      [] path = "data.zip"  -> <<"application", "zip">>
      [] path = "movie.mkv" -> <<"video", "x-matroska">>
      [] path = "scan.bmp"  -> <<"image", "bmp">>
      [] path = "feed.xml"  -> <<"application", "xml">>
      [] path = "data.json" -> <<"application", "json">>
      [] path = "paper.pdf" -> <<"application", "pdf">>
      [] path = "page.html" -> <<"text", "html">>
      [] path = "notes.txt" -> <<"text", "plain">>
      [] path = "song.mp3"  -> <<"audio", "mpeg">>
      [] OTHER              -> <<"application", "octet-stream">>

\* The files of the specification of the declared types: one per case of the
\* downgrade of lines 132-136, and one without a known extension.
MimePaths ==
    {"feed.xml", "data.json", "paper.pdf", "page.html", "notes.txt",
     "song.mp3", "clip.mp4", "blob"}

\* What metadata(path).len() may answer.
Sizes == {MAX_INLINE_SIZE - 1, MAX_INLINE_SIZE, MAX_INLINE_SIZE + 1}

\* What ImageReader::with_guessed_format().format() may answer for a file's bytes.
ImageFormats == {"Png", "Jpeg", "Bmp", "None"}

\* File contents are opaque: the bytes of a path, in the container format the
\* image reader detects in them, and their PNG re-encoding.
FileBytes(path, format) == <<"bytes", path, format>>
EncodePng(bytes) == <<"png", bytes>>
Base64(bytes) == <<"base64", bytes>>
NoBytes == <<"none">>

----------------------------------------------------------------------------
\* Remote file metadata (gemini_rust::File) and results.

NoExp == -1
NoName == 0

FileStates == {"Active", "Failed", "Processing", "StateUnspecified", "None", "Other"}

FileMeta(name, exp, state) == [name |-> name, expiration_time |-> exp, state |-> state]

NoResult == [kind |-> "none", name |-> NoName, err |-> "", mime |-> NoMime, data |-> NoBytes]
UploadedFile(name) == [NoResult EXCEPT !.kind = "UploadedFile", !.name = name]
InlinePart(mime, data) == [NoResult EXCEPT !.kind = "InlinePart", !.mime = mime, !.data = data]
Err(e) == [NoResult EXCEPT !.kind = "Err", !.err = e]

\* client.file_from_model(remote_file.clone()): a handle on the cached object.
FileFromModel(remote_file) == UploadedFile(remote_file.name)

\* IsExpired without the comparison of line 109.
IsExpired_Never(remote_file, t) == FALSE

\* Lines 108-112: an entry without expiration time never expires.
IsExpired(remote_file, t) ==
    IF remote_file.expiration_time # NoExp
    THEN remote_file.expiration_time < t
    ELSE FALSE

\* CacheInsert that keeps the entry a path already has.
CacheInsert_KeepFirst(cache, path, meta) ==
    [q \in (DOMAIN cache) \cup {path} |-> IF q \in DOMAIN cache THEN cache[q] ELSE meta]

\* cache.insert(path, meta): the entry of path is replaced, the others kept.
CacheInsert(cache, path, meta) ==
    [q \in (DOMAIN cache) \cup {path} |-> IF q = path THEN meta ELSE cache[q]]

----------------------------------------------------------------------------
\* The locals of one call, the counters of what the call has done, and the
\* cache message it has logged (lines 115, 120).

IdleTask ==
    [ pc |-> "idle", att |-> 0, path |-> "", upload |-> FALSE, len |-> 0,
      mime_str |-> NoMime, final_bytes |-> NoBytes,
      file_handle |-> NoName, start_time |-> 0, elapsed |-> 0, wake |-> 0,
      state |-> "", log |-> "", result |-> NoResult,
      lookups |-> 0, reads |-> 0, submits |-> 0, polls |-> 0, sleeps |-> 0,
      inserts |-> 0 ]

Init ==
    /\ GLOBAL_FILE_CACHE = << >>
    /\ poisoned = FALSE
    /\ now = 0
    /\ uploads = 0
    /\ task = [p \in Procs |-> IdleTask]
    /\ files = << >>
    /\ added = 0

\* The call returns res; the locals of the upload loop go out of scope.
Return(p, t, res) ==
    task' = [task EXCEPT ![p] =
               [t EXCEPT !.pc = "done", !.result = res,
                         !.file_handle = NoName, !.start_time = 0, !.wake = 0]]

Goto(p, t, pc) == task' = [task EXCEPT ![p] = [t EXCEPT !.pc = pc]]

\* A caller starts convert_file_to_part(client, path, upload); each caller
\* makes one call.
Call(p) ==
    /\ task[p].pc = "idle"
    /\ \E path \in Paths, upload \in BOOLEAN :
         task' = [task EXCEPT ![p] =
                    [IdleTask EXCEPT !.pc = "stat", !.path = path, !.upload = upload]]
    /\ UNCHANGED <<GLOBAL_FILE_CACHE, poisoned, now, uploads, files, added>>

\* A call for one of the files of MimePaths.
CallMime(p) ==
    /\ task[p].pc = "idle"
    /\ \E path \in MimePaths, upload \in BOOLEAN :
         task' = [task EXCEPT ![p] =
                    [IdleTask EXCEPT !.pc = "stat", !.path = path, !.upload = upload]]
    /\ UNCHANGED <<GLOBAL_FILE_CACHE, poisoned, now, uploads, files, added>>

\* Stat with the cache consulted first: a cached file is returned without a
\* stat.
Stat_Cached(p) ==
    /\ task[p].pc = "stat"
    /\ IF /\ task[p].upload /\ ~poisoned
          /\ task[p].path \in DOMAIN GLOBAL_FILE_CACHE
          /\ ~IsExpired(GLOBAL_FILE_CACHE[task[p].path], now)
       THEN Return(p, task[p], FileFromModel(GLOBAL_FILE_CACHE[task[p].path]))
       ELSE \/ Return(p, task[p], Err("io"))
            \/ \E len \in Sizes : Goto(p, [task[p] EXCEPT !.len = len], "size")
    /\ UNCHANGED <<GLOBAL_FILE_CACHE, poisoned, now, uploads, files, added>>

\* Line 96: the stat of the file.
Stat(p) ==
    /\ task[p].pc = "stat"
    /\ \/ Return(p, task[p], Err("io"))
       \/ \E len \in Sizes : Goto(p, [task[p] EXCEPT !.len = len], "size")
    /\ UNCHANGED <<GLOBAL_FILE_CACHE, poisoned, now, uploads, files, added>>

\* TooLarge with the ceiling itself rejected.
TooLarge_Inclusive(len, upload) == len >= MAX_INLINE_SIZE /\ ~upload

\* Lines 97-102: the size check.
TooLarge(len, upload) == len > MAX_INLINE_SIZE /\ ~upload

\* SizeCheck with the cache consulted whatever the upload flag is.
SizeCheck_Lookup(p) ==
    /\ task[p].pc = "size"
    /\ LET t == task[p] IN
       IF TooLarge(t.len, t.upload)
       THEN Return(p, t, Err("too_large"))
       ELSE Goto(p, [t EXCEPT !.len = 0], "lookup")
    /\ UNCHANGED <<GLOBAL_FILE_CACHE, poisoned, now, uploads, files, added>>

SizeCheck(p) ==
    /\ task[p].pc = "size"
    /\ LET t == task[p] IN
       IF TooLarge(t.len, t.upload)
       THEN Return(p, t, Err("too_large"))
       ELSE Goto(p, [t EXCEPT !.len = 0], IF t.upload THEN "lookup" ELSE "read")
    /\ UNCHANGED <<GLOBAL_FILE_CACHE, poisoned, now, uploads, files, added>>

\* Lookup with the lock unwrapped: a poisoned lock ends the call.
Lookup_Unwrap(p) ==
    /\ task[p].pc = "lookup"
    /\ LET t == [task[p] EXCEPT !.lookups = @ + 1] IN
       IF poisoned
       THEN Return(p, t, Err("poisoned"))
       ELSE IF t.path \in DOMAIN GLOBAL_FILE_CACHE
               /\ ~IsExpired(GLOBAL_FILE_CACHE[t.path], now)
       THEN Return(p, [t EXCEPT !.log = "Global cache hit"],
                   FileFromModel(GLOBAL_FILE_CACHE[t.path]))
       ELSE Goto(p, t, "read")
    /\ UNCHANGED <<GLOBAL_FILE_CACHE, poisoned, now, uploads, files, added>>

\* Lookup without the early return of lines 114-118.
Lookup_AlwaysMiss(p) ==
    /\ task[p].pc = "lookup"
    /\ Goto(p, [task[p] EXCEPT !.lookups = @ + 1], "read")
    /\ UNCHANGED <<GLOBAL_FILE_CACHE, poisoned, now, uploads, files, added>>

\* Lines 104-124: the lookup under the cache lock. A lock that cannot be
\* acquired, a missing entry and an expired entry all fall through to the read.
Lookup(p) ==
    /\ task[p].pc = "lookup"
    /\ LET t == [task[p] EXCEPT !.lookups = @ + 1] IN
       IF ~poisoned /\ t.path \in DOMAIN GLOBAL_FILE_CACHE
       THEN IF ~IsExpired(GLOBAL_FILE_CACHE[t.path], now)
            THEN Return(p, [t EXCEPT !.log = "Global cache hit"],
                        FileFromModel(GLOBAL_FILE_CACHE[t.path]))
            ELSE Goto(p, [t EXCEPT !.log = "Global cache expired"], "read")
       ELSE Goto(p, t, "read")
    /\ UNCHANGED <<GLOBAL_FILE_CACHE, poisoned, now, uploads, files, added>>

\* Lines 105, 207: GLOBAL_FILE_CACHE.lock() fails once the mutex is poisoned,
\* which a panic of a thread holding the lock does; it stays poisoned.
PoisonLock ==
    /\ ~poisoned
    /\ poisoned' = TRUE
    /\ UNCHANGED <<GLOBAL_FILE_CACHE, now, uploads, task, files, added>>

\* Line 127: the read of the whole file.
Read(p) ==
    /\ task[p].pc = "read"
    /\ LET t == [task[p] EXCEPT !.reads = @ + 1]
           image == MimeGuess(t.path)[1] = "image"
       IN \/ Return(p, t, Err("io"))
          \/ \E format \in (IF image THEN ImageFormats ELSE {"None"}) :
               Goto(p, [t EXCEPT !.final_bytes = FileBytes(t.path, format)], "normalize")
    /\ UNCHANGED <<GLOBAL_FILE_CACHE, poisoned, now, uploads, files, added>>

\* DeclaredMime with application/pdf downgraded like the other application
\* types.
DeclaredMime_Pdf(mime_type) ==
    IF \/ mime_type[1] = "application"
       \/ (mime_type[1] = "text" /\ mime_type # <<"text", "plain">>)
    THEN <<"text", "plain">>
    ELSE mime_type

\* DeclaredMime without the downgrade of line 135.
DeclaredMime_Keep(mime_type) == mime_type

\* Lines 129-136: the declared type.
DeclaredMime(mime_type) ==
    IF \/ (mime_type[1] = "application" /\ mime_type # <<"application", "pdf">>)
       \/ (mime_type[1] = "text" /\ mime_type # <<"text", "plain">>)
    THEN <<"text", "plain">>
    ELSE mime_type

\* NeedsPng with every image sent as it is.
NeedsPng_Never(format) == FALSE

\* Line 150: the formats that are re-encoded.
NeedsPng(format) == format # "None" /\ format \notin {"Png", "Jpeg"}

\* Supported without the check: every type passes.
Supported_All(mime_str) == TRUE

\* Line 170.
Supported(mime_str) == mime_str \in GEMINI_MIME

\* Normalize with the inline branch taken whatever the upload flag is.
Normalize_Inline(p) ==
    /\ task[p].pc = "normalize"
    /\ LET t0 == task[p]
           mime_type == MimeGuess(t0.path)
           file_bytes == t0.final_bytes
           convert == mime_type[1] = "image" /\ NeedsPng(file_bytes[3])
           mime_str == IF convert THEN <<"image", "png">> ELSE DeclaredMime(mime_type)
           bytes == IF convert THEN EncodePng(file_bytes) ELSE file_bytes
           t == [t0 EXCEPT !.mime_str = mime_str, !.final_bytes = bytes]
       IN IF ~Supported(mime_str)
          THEN Return(p, t, Err("unsupported"))
          ELSE Return(p, t, InlinePart(mime_str, Base64(bytes)))
    /\ UNCHANGED <<GLOBAL_FILE_CACHE, poisoned, now, uploads, files, added>>

\* Lines 129-253 up to the upload: type, image conversion, validation, and the
\* inline result when upload is false.
Normalize(p) ==
    /\ task[p].pc = "normalize"
    /\ LET t0 == task[p]
           mime_type == MimeGuess(t0.path)
           file_bytes == t0.final_bytes
           convert == mime_type[1] = "image" /\ NeedsPng(file_bytes[3])
           mime_str == IF convert THEN <<"image", "png">> ELSE DeclaredMime(mime_type)
       IN \/ /\ convert
             /\ Return(p, [t0 EXCEPT !.mime_str = mime_str], Err("decode"))
          \/ LET bytes == IF convert THEN EncodePng(file_bytes) ELSE file_bytes
                 t == [t0 EXCEPT !.mime_str = mime_str, !.final_bytes = bytes]
             IN IF ~Supported(mime_str)
                THEN Return(p, t, Err("unsupported"))
                ELSE IF t.upload
                THEN Goto(p, t, "submit")
                ELSE Return(p, t, InlinePart(mime_str, Base64(bytes)))
    /\ UNCHANGED <<GLOBAL_FILE_CACHE, poisoned, now, uploads, files, added>>

\* Submit recording the new file in the cache before it is Active.
Submit_Caches(p) ==
    /\ task[p].pc = "submit"
    /\ uploads' = uploads + 1
    /\ GLOBAL_FILE_CACHE' =
         CacheInsert(GLOBAL_FILE_CACHE, task[p].path, FileMeta(uploads + 1, NoExp, "Processing"))
    /\ Goto(p, [task[p] EXCEPT !.submits = @ + 1, !.file_handle = uploads + 1,
                               !.start_time = now], "poll")
    /\ UNCHANGED <<poisoned, now, files, added>>

\* Lines 181-198: the upload; the service names the new remote file.
Submit(p) ==
    /\ task[p].pc = "submit"
    /\ LET t == [task[p] EXCEPT !.submits = @ + 1] IN
       \/ /\ Return(p, t, Err("upload"))
          /\ UNCHANGED uploads
       \/ /\ uploads' = uploads + 1
          /\ Goto(p, [t EXCEPT !.file_handle = uploads + 1, !.start_time = now], "poll")
    /\ UNCHANGED <<GLOBAL_FILE_CACHE, poisoned, now, files, added>>

\* Lines 219, 226: the states that wait and poll again.
Pending(state) == state \notin {"Active", "Failed"}

\* TimedOut with the ceiling itself counted as a timeout.
TimedOut_Inclusive(elapsed) == elapsed >= TIMEOUT_SECS

\* Lines 220, 227.
TimedOut(elapsed) == elapsed > TIMEOUT_SECS

\* UpdateCache without the insert.
UpdateCache_Skip(cache, path, meta) == cache

\* Lines 207-212: the insert under the cache lock, skipped when the lock cannot
\* be acquired.
UpdateCache(cache, path, meta) ==
    IF poisoned THEN cache ELSE CacheInsert(cache, path, meta)

\* OnTransportError handled like a state that is not ready yet.
OnTransportError_Retry(p, t0) ==
    /\ t0.sleeps < MaxPending
    /\ Goto(p, [t0 EXCEPT !.sleeps = @ + 1, !.wake = now' + SLEEP_SECS], "sleep")
    /\ UNCHANGED GLOBAL_FILE_CACHE

\* Line 201: client.get_file(..).await? fails.
OnTransportError(p, t0) ==
    /\ Return(p, t0, Err("transport"))
    /\ UNCHANGED GLOBAL_FILE_CACHE

\* Lines 203-215 and 237: Active. The service lets a file expire TTL seconds
\* after its creation, or never.
OnActive(p, t0) ==
    \E exp \in {NoExp, t0.start_time + TTL} :
      LET t == [t0 EXCEPT !.state = "Active",
                          !.inserts = IF poisoned THEN @ ELSE @ + 1] IN
      /\ GLOBAL_FILE_CACHE' =
           UpdateCache(GLOBAL_FILE_CACHE, t.path, FileMeta(t.file_handle, exp, "Active"))
      /\ Return(p, t, UploadedFile(t.file_handle))

\* OnFailed that drops the entry of the path from the cache.
OnFailed_Evict(p, t0) ==
    /\ Return(p, [t0 EXCEPT !.state = "Failed"], Err("failed"))
    /\ GLOBAL_FILE_CACHE' =
         [q \in (DOMAIN GLOBAL_FILE_CACHE) \ {t0.path} |-> GLOBAL_FILE_CACHE[q]]

\* OnFailed handled like a state that is not ready yet.
OnFailed_Retry(p, t0) ==
    /\ t0.sleeps < MaxPending
    /\ Goto(p, [t0 EXCEPT !.state = "Failed", !.sleeps = @ + 1,
                         !.wake = now' + SLEEP_SECS], "sleep")
    /\ UNCHANGED GLOBAL_FILE_CACHE

\* Lines 216-218: Failed.
OnFailed(p, t0) ==
    /\ Return(p, [t0 EXCEPT !.state = "Failed"], Err("failed"))
    /\ UNCHANGED GLOBAL_FILE_CACHE

\* OnPending with an unknown state ending the call at once.
OnPending_OtherFails(p, t0, state, t1, cap) ==
    LET t == [t0 EXCEPT !.state = state, !.elapsed = t1 - t0.start_time] IN
    /\ IF TimedOut(t.elapsed) \/ state = "Other"
       THEN Return(p, t, Err(IF state = "Other" THEN "timeout_unknown" ELSE "timeout"))
       ELSE /\ t.sleeps < cap
            /\ Goto(p, [t EXCEPT !.sleeps = @ + 1, !.wake = t1 + SLEEP_SECS], "sleep")
    /\ UNCHANGED GLOBAL_FILE_CACHE

\* Lines 219-231: every other state, at time t1; cap bounds the sleeps of one
\* upload.
OnPending(p, t0, state, t1, cap) ==
    LET t == [t0 EXCEPT !.state = state, !.elapsed = t1 - t0.start_time] IN
    /\ IF TimedOut(t.elapsed)
       THEN Return(p, t, Err(IF state = "Other" THEN "timeout_unknown" ELSE "timeout"))
       ELSE /\ t.sleeps < cap
            /\ Goto(p, [t EXCEPT !.sleeps = @ + 1, !.wake = t1 + SLEEP_SECS], "sleep")
    /\ UNCHANGED GLOBAL_FILE_CACHE

\* Lines 200-233: one turn of the loop, client.get_file and the match on the
\* state it reports. The round trip takes d seconds.
Poll(p, cap, delays) ==
    /\ task[p].pc = "poll"
    /\ \E d \in delays :
       LET t0 == [task[p] EXCEPT !.polls = @ + 1] IN
       /\ now' = now + d
       /\ \/ OnTransportError(p, t0)
          \/ OnActive(p, t0)
          \/ OnFailed(p, t0)
          \/ \E state \in {s \in FileStates : Pending(s)} :
               OnPending(p, t0, state, now', cap)
    /\ UNCHANGED <<poisoned, uploads, files, added>>

\* WakeUp of a sleep that returns at once.
WakeUp_Early(p) ==
    /\ task[p].pc = "sleep"
    /\ Goto(p, [task[p] EXCEPT !.state = "", !.elapsed = 0, !.wake = 0], "poll")
    /\ UNCHANGED <<GLOBAL_FILE_CACHE, poisoned, now, uploads, files, added>>

\* Lines 224, 230: tokio::time::sleep returns once its deadline has passed.
WakeUp(p) ==
    /\ task[p].pc = "sleep"
    /\ now >= task[p].wake
    /\ Goto(p, [task[p] EXCEPT !.state = "", !.elapsed = 0, !.wake = 0], "poll")
    /\ UNCHANGED <<GLOBAL_FILE_CACHE, poisoned, now, uploads, files, added>>

\* The clock moves to the earliest pending sleep deadline.
Sleepers == {p \in Procs : task[p].pc = "sleep" /\ task[p].wake > now}

Advance ==
    /\ Sleepers # {}
    /\ now' = CHOOSE w \in {task[p].wake : p \in Sleepers} :
                 \A p \in Sleepers : w <= task[p].wake
    /\ UNCHANGED <<GLOBAL_FILE_CACHE, poisoned, uploads, task, files, added>>

----------------------------------------------------------------------------
\* Attachments. An Attachment is a path, the guessed type and a state; the
\* model adds the identity of the object (id).

Local == [tag |-> "Local", name |-> NoName, err |-> ""]
Uploading == [tag |-> "Uploading", name |-> NoName, err |-> ""]
Uploaded(name) == [tag |-> "Uploaded", name |-> name, err |-> ""]
Failed(err) == [tag |-> "Failed", name |-> NoName, err |-> err]

\* Lines 68-77.
from_path(id, path) ==
    [id |-> id, path |-> path, mime |-> MimeGuess(path), state |-> Local]

\* The user attaches a file.
AddFile ==
    /\ added < MaxAdded
    /\ \E path \in Paths : files' = Append(files, from_path(added + 1, path))
    /\ added' = added + 1
    /\ UNCHANGED <<GLOBAL_FILE_CACHE, poisoned, now, uploads, task>>

\* The conversion of a Local attachment is started as a task of its own and the
\* attachment is marked Uploading.
Dispatch(p) ==
    /\ task[p].pc = "idle"
    /\ \E i \in 1..Len(files) :
         /\ files[i].state.tag = "Local"
         /\ files' = [files EXCEPT ![i].state = Uploading]
         /\ task' = [task EXCEPT ![p] =
                       [IdleTask EXCEPT !.pc = "stat", !.att = files[i].id,
                                        !.path = files[i].path, !.upload = TRUE]]
    /\ UNCHANGED <<GLOBAL_FILE_CACHE, poisoned, now, uploads, added>>

\* Outcome with a failed conversion put back to Local.
Outcome_Reset(result) ==
    IF result.kind = "UploadedFile" THEN Uploaded(result.name) ELSE Local

\* The state a finished conversion gives its attachment.
Outcome(result) ==
    IF result.kind = "UploadedFile" THEN Uploaded(result.name) ELSE Failed(result.err)

\* The result of a finished task reaches its attachment, if that is still in
\* the list; else it is dropped.
Deliver(p) ==
    /\ task[p].pc = "done"
    /\ task[p].att # 0
    /\ files' = [i \in 1..Len(files) |->
                   IF files[i].id = task[p].att
                   THEN [files[i] EXCEPT !.state = Outcome(task[p].result)]
                   ELSE files[i]]
    /\ task' = [task EXCEPT ![p].pc = "delivered"]
    /\ UNCHANGED <<GLOBAL_FILE_CACHE, poisoned, now, uploads, added>>

RECURSIVE Retain(_, _)
\* Vec::retain_mut with the closure of lines 261-391: the entries are visited in
\* order; the first one under the pointer shows the remove button (showing_x)
\* and is dropped when the button is clicked; mutate = FALSE keeps them all.
Retain(list, remove) ==
    IF list = << >> THEN << >>
    ELSE IF remove = 1 THEN Tail(list)
    ELSE <<Head(list)>> \o Retain(Tail(list), IF remove = 0 THEN 0 ELSE remove - 1)

\* show_files with the remove button active whatever mutate is.
show_files_Always(list, mutate, hovered, clicked) ==
    IF hovered # 0 /\ clicked THEN Retain(list, hovered) ELSE list

\* Lines 256-392. hovered is the first entry whose frame holds the pointer (0:
\* none), clicked whether the remove button is clicked.
show_files(list, mutate, hovered, clicked) ==
    IF mutate /\ hovered # 0 /\ clicked THEN Retain(list, hovered) ELSE list

ShowFiles ==
    /\ \E mutate \in BOOLEAN, hovered \in 0..Len(files), clicked \in BOOLEAN :
         files' = show_files(files, mutate, hovered, clicked)
    /\ UNCHANGED <<GLOBAL_FILE_CACHE, poisoned, now, uploads, task, added>>

----------------------------------------------------------------------------
\* The cache mutex, step by step. A call holds the lock from the lock() of
\* line 105 or 207 to the end of the block it guards; the insert of line 208
\* writes the entry in two steps, so that an access made without the lock
\* could see it half written.

LockPaths == {"clip.mp4", "data.zip"}

\* A call with upload = TRUE for one of the files of LockPaths.
CallLock(p) ==
    /\ task[p].pc = "idle"
    /\ \E path \in LockPaths :
         task' = [task EXCEPT ![p] =
                    [IdleTask EXCEPT !.pc = "stat", !.path = path, !.upload = TRUE]]
    /\ UNCHANGED <<GLOBAL_FILE_CACHE, poisoned, now, uploads, files, added>>

\* The callers that hold the lock.
Holders == {p \in Procs : task[p].pc \in {"lookup_locked", "insert_locked", "insert_half"}}

\* LockFree of a lock that excludes nobody.
LockFree_Always(holders) == TRUE

\* Mutex::lock() returns once no one holds the lock.
LockFree(holders) == holders = {}

\* Line 105: lock() for the lookup; Err (poisoned) skips the block.
LockForLookup(p) ==
    /\ task[p].pc = "lookup"
    /\ LockFree(Holders)
    /\ Goto(p, [task[p] EXCEPT !.lookups = @ + 1],
            IF poisoned THEN "read" ELSE "lookup_locked")
    /\ UNCHANGED <<GLOBAL_FILE_CACHE, poisoned, now, uploads, files, added>>

\* Lines 106-122 under the lock, which the end of the block releases. The
\* state of the entry that was read is kept in the call's state.
LockedLookup(p) ==
    /\ task[p].pc = "lookup_locked"
    /\ LET t0 == task[p] IN
       IF t0.path \in DOMAIN GLOBAL_FILE_CACHE
       THEN LET remote_file == GLOBAL_FILE_CACHE[t0.path]
                t == [t0 EXCEPT !.state = remote_file.state]
            IN IF ~IsExpired(remote_file, now)
               THEN Return(p, [t EXCEPT !.log = "Global cache hit"],
                           FileFromModel(remote_file))
               ELSE Goto(p, [t EXCEPT !.log = "Global cache expired"], "read")
       ELSE Goto(p, t0, "read")
    /\ UNCHANGED <<GLOBAL_FILE_CACHE, poisoned, now, uploads, files, added>>

\* Lines 203-204: Active; the insert follows.
OnActiveLock(p, t0) ==
    /\ Goto(p, [t0 EXCEPT !.state = "Active"], "insert")
    /\ UNCHANGED GLOBAL_FILE_CACHE

\* Lines 200-233 with the insert left to the steps below.
PollLock(p, cap, delays) ==
    /\ task[p].pc = "poll"
    /\ \E d \in delays :
       LET t0 == [task[p] EXCEPT !.polls = @ + 1] IN
       /\ now' = now + d
       /\ \/ OnTransportError(p, t0)
          \/ OnActiveLock(p, t0)
          \/ OnFailed(p, t0)
          \/ \E state \in {s \in FileStates : Pending(s)} :
               OnPending(p, t0, state, now', cap)
    /\ UNCHANGED <<poisoned, uploads, files, added>>

\* Line 207: lock() for the insert; Err (poisoned) skips it, and the call
\* returns its handle (line 237).
LockForInsert(p) ==
    /\ task[p].pc = "insert"
    /\ LockFree(Holders)
    /\ IF poisoned
       THEN Return(p, task[p], UploadedFile(task[p].file_handle))
       ELSE Goto(p, task[p], "insert_locked")
    /\ UNCHANGED <<GLOBAL_FILE_CACHE, poisoned, now, uploads, files, added>>

\* Lines 208-211, first half: the entry of the path exists, not yet complete.
InsertBegin(p) ==
    /\ task[p].pc = "insert_locked"
    /\ GLOBAL_FILE_CACHE' =
         CacheInsert(GLOBAL_FILE_CACHE, task[p].path,
                     FileMeta(task[p].file_handle, NoExp, "Partial"))
    /\ Goto(p, task[p], "insert_half")
    /\ UNCHANGED <<poisoned, now, uploads, files, added>>

\* Lines 208-214 and 237, second half: the entry is complete, the lock is
\* released and the call returns its handle.
InsertEnd(p) ==
    /\ task[p].pc = "insert_half"
    /\ \E exp \in {NoExp, task[p].start_time + TTL} :
         GLOBAL_FILE_CACHE' =
           CacheInsert(GLOBAL_FILE_CACHE, task[p].path,
                       FileMeta(task[p].file_handle, exp, "Active"))
    /\ Return(p, [task[p] EXCEPT !.inserts = @ + 1], UploadedFile(task[p].file_handle))
    /\ UNCHANGED <<poisoned, now, uploads, files, added>>

\* How long a status round trip may take: no time, or longer than the timeout.
Delays == {0, TIMEOUT_SECS + 1}
NoDelay == {0}
Uncapped == TIMEOUT_SECS

convert_file_to_part(p, cap, delays) ==
    \/ Stat(p) \/ SizeCheck(p) \/ Lookup(p) \/ Read(p) \/ Normalize(p)
    \/ Submit(p) \/ Poll(p, cap, delays) \/ WakeUp(p)

Next ==
    \/ \E p \in Procs : Call(p) \/ convert_file_to_part(p, MaxPending, Delays)
    \/ Advance
    \/ PoisonLock

Spec == Init /\ [][Next]_vars

\* One call under a clock that only the sleeps move.
NextSim ==
    \/ \E p \in SimProcs : Call(p) \/ convert_file_to_part(p, Uncapped, NoDelay)
    \/ Advance
    \/ PoisonLock

SpecSim == Init /\ [][NextSim]_vars

\* Calls over the files of MimePaths.
NextMime ==
    \/ \E p \in Procs : CallMime(p) \/ convert_file_to_part(p, MaxPending, NoDelay)
    \/ Advance

SpecMime == Init /\ [][NextMime]_vars

\* Concurrent uploads with the steps of the cache mutex.
NextLock ==
    \/ \E p \in Procs :
         \/ CallLock(p)
         \/ Stat(p) \/ SizeCheck(p) \/ LockForLookup(p) \/ LockedLookup(p)
         \/ Read(p) \/ Normalize(p) \/ Submit(p) \/ PollLock(p, MaxPending, NoDelay)
         \/ LockForInsert(p) \/ InsertBegin(p) \/ InsertEnd(p) \/ WakeUp(p)
    \/ Advance
    \/ PoisonLock

SpecLock == Init /\ [][NextLock]_vars

\* The attachment list and the conversions started from it.
NextUI ==
    \/ AddFile
    \/ ShowFiles
    \/ \E p \in SimProcs :
         Dispatch(p) \/ convert_file_to_part(p, MaxPending, Delays) \/ Deliver(p)
    \/ Advance

SpecUI == Init /\ [][NextUI]_vars

----------------------------------------------------------------------------
\* Properties.

Stepped(p) == task'[p] # task[p]

NoNetwork(t) == t.submits = 0 /\ t.polls = 0

\* C1: a file larger than 20 MiB with upload = FALSE is rejected by the size
\* check with the too-large error before any lookup, read, submit or poll; a
\* file of exactly 20 MiB, and any file with upload = TRUE, passes the check;
\* the too-large error has no other origin.
C1_SizeCheck ==
    /\ [] (\A p \in Procs :
             task[p].result = Err("too_large") =>
               /\ task[p].len > 20 * 1024 * 1024
               /\ ~task[p].upload
               /\ task[p].lookups = 0 /\ task[p].reads = 0 /\ NoNetwork(task[p]))
    /\ [][\A p \in Procs :
            task[p].pc = "size" /\ Stepped(p) =>
              IF task[p].len > 20 * 1024 * 1024 /\ ~task[p].upload
              THEN task'[p].pc = "done" /\ task'[p].result = Err("too_large")
              ELSE task'[p].pc = (IF task[p].upload THEN "lookup" ELSE "read")]_vars

C1_Witness ==
    \E p, q \in Procs :
      /\ task[p].result = Err("too_large") /\ task[p].len = 20 * 1024 * 1024 + 1
      /\ task[q].result.kind = "InlinePart"

\* C2: with upload = TRUE, the lock acquired and a non-expired entry cached for
\* the path, the lookup returns the handle of the cached file; the call has
\* read nothing, submitted nothing and polled nothing, and the cache is as it
\* was.
C2_CacheHit ==
    [][\A p \in Procs :
         ( /\ task[p].pc = "lookup" /\ Stepped(p)
           /\ ~poisoned
           /\ task[p].path \in DOMAIN GLOBAL_FILE_CACHE
           /\ LET exp == GLOBAL_FILE_CACHE[task[p].path].expiration_time
              IN exp = NoExp \/ exp >= now )
         => /\ task'[p].pc = "done"
            /\ task'[p].result = UploadedFile(GLOBAL_FILE_CACHE[task[p].path].name)
            /\ task'[p].reads = 0 /\ NoNetwork(task'[p])
            /\ GLOBAL_FILE_CACHE' = GLOBAL_FILE_CACHE]_vars

C2_Witness ==
    \E p \in Procs :
      /\ task[p].pc = "done" /\ task[p].upload
      /\ task[p].lookups = 1 /\ task[p].reads = 0
      /\ task[p].result.kind = "UploadedFile"
      /\ task[p].path \in DOMAIN GLOBAL_FILE_CACHE
      /\ task[p].result.name = GLOBAL_FILE_CACHE[task[p].path].name

\* C3: once a call has returned the handle of a file it uploaded and recorded,
\* a later call for the same path, made with the lock acquired and the
\* recorded expiration not passed, returns at the lookup a handle of the same
\* remote name, with no submit and no poll.
UploadedAndRecorded(t) ==
    /\ t.pc = "done" /\ t.result.kind = "UploadedFile"
    /\ t.submits = 1 /\ t.polls >= 1 /\ t.inserts = 1

C3_SecondCall ==
    [][\A p, q \in Procs :
         ( /\ p # q
           /\ UploadedAndRecorded(task[p])
           /\ task[q].pc = "lookup" /\ Stepped(q)
           /\ task[q].path = task[p].path
           /\ ~poisoned )
         => /\ task[q].path \in DOMAIN GLOBAL_FILE_CACHE
            /\ LET exp == GLOBAL_FILE_CACHE[task[q].path].expiration_time
               IN (exp = NoExp \/ exp >= now) =>
                    /\ task'[q].pc = "done"
                    /\ task'[q].result.kind = "UploadedFile"
                    /\ task'[q].result.name = task[p].result.name
                    /\ NoNetwork(task'[q])]_vars

C3_Witness ==
    \E p, q \in Procs :
      /\ p # q
      /\ UploadedAndRecorded(task[p])
      /\ task[q].pc = "done" /\ task[q].path = task[p].path
      /\ task[q].lookups = 1 /\ NoNetwork(task[q])
      /\ task[q].result = task[p].result

\* C4: an entry whose expiration time is earlier than the current time is not
\* returned: the lookup goes on to the read and leaves the entry in place; the
\* call then reads, submits and polls, and its Active answer replaces the
\* entry by the metadata of the new upload.
C4_Expired ==
    /\ [][\A p \in Procs :
            ( /\ task[p].pc = "lookup" /\ Stepped(p)
              /\ task[p].path \in DOMAIN GLOBAL_FILE_CACHE
              /\ GLOBAL_FILE_CACHE[task[p].path].expiration_time # NoExp
              /\ GLOBAL_FILE_CACHE[task[p].path].expiration_time < now )
            => /\ task'[p].pc = "read"
               /\ GLOBAL_FILE_CACHE' = GLOBAL_FILE_CACHE]_vars
    /\ [][\A p \in Procs :
            ( /\ task[p].log = "Global cache expired"
              /\ task[p].pc = "poll" /\ task'[p].pc = "done"
              /\ task'[p].result.kind = "UploadedFile"
              /\ ~poisoned )
            => /\ task'[p].reads = 1 /\ task'[p].submits = 1
               /\ task[p].path \in DOMAIN GLOBAL_FILE_CACHE
               /\ GLOBAL_FILE_CACHE'[task[p].path].name = task'[p].result.name
               /\ GLOBAL_FILE_CACHE'[task[p].path].name
                    # GLOBAL_FILE_CACHE[task[p].path].name]_vars
    /\ [] (\A p \in Procs :
             task[p].log = "Global cache expired" =>
               /\ task[p].pc \in {"read", "normalize", "submit", "poll", "sleep", "done"}
               /\ task[p].pc \in {"poll", "sleep"} => task[p].reads = 1 /\ task[p].submits = 1)

C4_Witness ==
    \E p \in Procs :
      /\ task[p].log = "Global cache expired"
      /\ UploadedAndRecorded(task[p])
      /\ task[p].reads = 1
      /\ GLOBAL_FILE_CACHE[task[p].path].name = task[p].result.name

\* C5 as stated: a path guessed application/zip never gets past validation.
C5_ZipRejected ==
    \A p \in Procs :
      MimeGuess(task[p].path) = <<"application", "zip">> =>
        /\ task[p].pc \notin {"submit", "poll", "sleep"}
        /\ task[p].result.kind \notin {"InlinePart", "UploadedFile"}

\* C5, amended: a path guessed application/zip is declared text/plain and passes
\* validation for both values of upload; the unsupported-type error is returned
\* only for a declared type outside the allow-list, and the call has made no
\* network call.
C5_ZipAsText ==
    \A p \in Procs :
      /\ ( MimeGuess(task[p].path) = <<"application", "zip">>
           /\ task[p].mime_str # NoMime )
         => /\ task[p].mime_str = <<"text", "plain">>
            /\ task[p].result # Err("unsupported")
            /\ task[p].pc \in {"submit", "poll", "sleep", "done"}
      /\ task[p].result = Err("unsupported")
         => /\ task[p].mime_str \notin GEMINI_MIME
            /\ NoNetwork(task[p])

C5_Witness ==
    \E p, q \in Procs :
      /\ task[p].path = "data.zip" /\ task[p].upload /\ task[p].pc = "poll"
      /\ task[q].path = "data.zip" /\ ~task[q].upload
      /\ task[q].result = InlinePart(<<"text", "plain">>, Base64(FileBytes("data.zip", "None")))

\* C6 as stated: the timeout comes after 150 polls, 300 seconds after the
\* submission.
C6_Timeout150 ==
    \A p \in Procs :
      task[p].result = Err("timeout") =>
        task[p].polls = 150 /\ task[p].elapsed = 300

\* C6, amended: under a clock that only the sleeps move, the polls of an upload
\* that is never ready are 2 seconds apart, the poll at 300 seconds still
\* sleeps, and the timeout error is returned by the 152nd poll, 302 seconds
\* after the submission and after 151 sleeps.
C6_Timeout152 ==
    \A p \in Procs :
      /\ task[p].result \in {Err("timeout"), Err("timeout_unknown")} =>
           task[p].polls = 152 /\ task[p].sleeps = 151 /\ task[p].elapsed = 302
      /\ task[p].pc = "poll" =>
           /\ task[p].sleeps = task[p].polls
           /\ now - task[p].start_time = 2 * task[p].polls
           /\ task[p].polls <= 151
      /\ task[p].pc = "sleep" =>
           /\ task[p].elapsed = 2 * (task[p].polls - 1)
           /\ task[p].elapsed <= 300

C6_Witness ==
    \E p \in Procs :
      /\ task[p].result = Err("timeout") /\ task[p].state = "Processing"
      /\ task[p].polls = 152 /\ now = 302

C8_OnlyActiveWrites ==
    /\ [] (\A path \in DOMAIN GLOBAL_FILE_CACHE :
             GLOBAL_FILE_CACHE[path].state = "Active")
    /\ [][GLOBAL_FILE_CACHE' # GLOBAL_FILE_CACHE =>
            \E p \in Procs :
              /\ task[p].pc = "poll" /\ task'[p].pc = "done"
              /\ task'[p].state = "Active"
              /\ task'[p].result = UploadedFile(task[p].file_handle)
              /\ DOMAIN GLOBAL_FILE_CACHE' = DOMAIN GLOBAL_FILE_CACHE \cup {task[p].path}
              /\ GLOBAL_FILE_CACHE'[task[p].path].name = task[p].file_handle
              /\ \A q \in DOMAIN GLOBAL_FILE_CACHE \ {task[p].path} :
                   GLOBAL_FILE_CACHE'[q] = GLOBAL_FILE_CACHE[q]]_vars

C8_Witness ==
    \E p, q \in Procs :
      /\ task[p].inserts = 1 /\ task[p].path \in DOMAIN GLOBAL_FILE_CACHE
      /\ task[q].result = Err("timeout") /\ task[q].path \notin DOMAIN GLOBAL_FILE_CACHE

\* C9: a poll that answers Failed ends the call in that step with the
\* processing-failed error: no sleep, no further poll, no second submit, no
\* cache write.
C9_FailedIsTerminal ==
    /\ [][\A p \in Procs :
            (task[p].pc = "poll" /\ Stepped(p) /\ task'[p].state = "Failed")
            => /\ task'[p].pc = "done"
               /\ task'[p].result = Err("failed")
               /\ task'[p].polls = task[p].polls + 1
               /\ task'[p].sleeps = task[p].sleeps
               /\ task'[p].submits = 1
               /\ GLOBAL_FILE_CACHE' = GLOBAL_FILE_CACHE]_vars
    /\ [][\A p \in Procs :
            task[p].result = Err("failed") => task'[p] = task[p]]_vars

C9_Witness ==
    \E p \in Procs :
      /\ task[p].result = Err("failed") /\ task[p].state = "Failed"
      /\ task[p].polls = 2 /\ task[p].sleeps = 1
      /\ task[p].path \notin DOMAIN GLOBAL_FILE_CACHE

\* C10: with the lock poisoned the lookup goes on to the read like a miss and
\* the Active answer returns the uploaded-file handle with the cache left as
\* it is; no call ends with an error of the lock.
C10_LockFailure ==
    /\ [][\A p \in Procs :
            (poisoned /\ task[p].pc = "lookup" /\ Stepped(p))
            => task'[p].pc = "read" /\ task'[p].result = NoResult]_vars
    /\ [][\A p \in Procs :
            (poisoned /\ task[p].pc = "poll" /\ Stepped(p) /\ task'[p].state = "Active")
            => /\ task'[p].pc = "done"
               /\ task'[p].result = UploadedFile(task[p].file_handle)
               /\ GLOBAL_FILE_CACHE' = GLOBAL_FILE_CACHE]_vars
    /\ [] (\A p \in Procs :
             task[p].result.kind = "Err" =>
               task[p].result.err \in
                 {"io", "too_large", "decode", "unsupported", "upload",
                  "transport", "failed", "timeout", "timeout_unknown"})

C10_Witness ==
    \E p, q \in Procs :
      /\ poisoned
      /\ UploadedAndRecorded(task[q])
      /\ task[p].path = task[q].path
      /\ task[p].pc = "done" /\ task[p].result.kind = "UploadedFile"
      /\ task[p].lookups = 1 /\ task[p].submits = 1 /\ task[p].inserts = 0
      /\ task[p].result.name > task[q].result.name
      /\ GLOBAL_FILE_CACHE[task[p].path].name = task[q].result.name

\* C11: the validation step of a call whose declared type is outside
\* GEMINI_MIME ends the call with the unsupported-type error; the call has
\* submitted nothing, polled nothing and inserted nothing, and the step leaves
\* the cache as it is. A call that is submitting, has submitted or returns a
\* result carries a declared type of GEMINI_MIME.
C11_Validation ==
    /\ [][\A p \in Procs :
            ( /\ task[p].pc = "normalize" /\ Stepped(p)
              /\ task'[p].mime_str \notin GEMINI_MIME )
            => /\ task'[p].pc = "done"
               /\ task'[p].result = Err("unsupported")
               /\ NoNetwork(task'[p]) /\ task'[p].inserts = 0
               /\ GLOBAL_FILE_CACHE' = GLOBAL_FILE_CACHE]_vars
    /\ [] (\A p \in Procs :
             /\ ( \/ task[p].pc \in {"submit", "poll", "sleep"}
                  \/ task[p].submits > 0
                  \/ task[p].result.kind = "InlinePart" )
                => task[p].mime_str \in GEMINI_MIME
             /\ task[p].result = Err("unsupported")
                => NoNetwork(task[p]) /\ task[p].inserts = 0)

C11_Witness ==
    \E p, q \in Procs :
      /\ task[p].result = Err("unsupported") /\ task[p].upload
      /\ task[p].mime_str = <<"image", "bmp">>
      /\ task[q].result = Err("unsupported") /\ ~task[q].upload
      /\ task[q].mime_str = <<"video", "x-matroska">>

\* C12: a call that returns a result returns the uploaded-file handle exactly
\* when upload is TRUE and the inline part exactly when upload is FALSE; the
\* inline part pairs the declared type with the base64 of the final bytes.
C12_OneVariant ==
    \A p \in Procs :
      (task[p].pc = "done" /\ task[p].result.kind # "Err") =>
        /\ task[p].result.kind \in {"UploadedFile", "InlinePart"}
        /\ task[p].result.kind = "UploadedFile" <=> task[p].upload
        /\ task[p].result.kind = "InlinePart" <=> ~task[p].upload
        /\ task[p].upload =>
             /\ task[p].result.name # NoName
             /\ task[p].result.mime = NoMime /\ task[p].result.data = NoBytes
        /\ ~task[p].upload =>
             /\ task[p].result.name = NoName
             /\ task[p].result.mime = task[p].mime_str
             /\ task[p].result.data = Base64(task[p].final_bytes)

C12_Witness ==
    \E p, q \in Procs :
      /\ task[p].path = "scan.bmp" /\ task[p].upload
      /\ task[p].result.kind = "UploadedFile" /\ task[p].submits = 1
      /\ task[q].path = "scan.bmp" /\ ~task[q].upload
      /\ task[q].result =
           InlinePart(<<"image", "png">>, Base64(EncodePng(FileBytes("scan.bmp", "Bmp"))))

\* C13: once the declared type of a call is set, a guessed type application/*
\* other than application/pdf, or text/* other than text/plain, is declared
\* text/plain; a guessed video, audio, text/plain or application/pdf type is
\* declared as guessed; in both cases the bytes sent onward, to the upload or
\* inside the inline part, are the bytes read from the file.
C13_Downgrade ==
    \A p \in Procs :
      task[p].mime_str # NoMime =>
        LET guess == MimeGuess(task[p].path)
            downgraded ==
              \/ guess[1] = "application" /\ guess # <<"application", "pdf">>
              \/ guess[1] = "text" /\ guess # <<"text", "plain">>
            through ==
              \/ guess[1] \in {"video", "audio"}
              \/ guess \in {<<"text", "plain">>, <<"application", "pdf">>}
        IN /\ downgraded \/ through
           /\ downgraded => task[p].mime_str = <<"text", "plain">>
           /\ through => task[p].mime_str = guess
           /\ task[p].final_bytes = FileBytes(task[p].path, "None")
           /\ task[p].result.kind = "InlinePart" =>
                /\ task[p].result.mime = task[p].mime_str
                /\ task[p].result.data = Base64(FileBytes(task[p].path, "None"))

C13_Witness ==
    \E p, q \in Procs :
      /\ task[p].path = "feed.xml"
      /\ task[p].result =
           InlinePart(<<"text", "plain">>, Base64(FileBytes("feed.xml", "None")))
      /\ task[q].path = "paper.pdf" /\ task[q].upload /\ task[q].pc = "poll"
      /\ task[q].mime_str = <<"application", "pdf">>
      /\ task[q].final_bytes = FileBytes("paper.pdf", "None")

\* C14: for a path guessed image/*, the normalization of bytes whose detected
\* format is neither PNG nor JPEG either fails with the decode error, with no
\* network call, or replaces the bytes by their PNG encoding and declares
\* image/png, which passes validation (the call goes on to the submit or
\* returns the inline part); bytes detected as PNG or JPEG keep their content
\* and the guessed type, and never give the decode error.
C14_ImageReencode ==
    /\ [][\A p \in Procs :
            ( /\ task[p].pc = "normalize" /\ Stepped(p)
              /\ MimeGuess(task[p].path)[1] = "image" )
            => LET format == task[p].final_bytes[3]
                   png == EncodePng(task[p].final_bytes)
               IN /\ format \notin {"Png", "Jpeg", "None"} =>
                       \/ /\ task'[p].pc = "done"
                          /\ task'[p].result = Err("decode")
                          /\ NoNetwork(task'[p])
                       \/ /\ task'[p].mime_str = <<"image", "png">>
                          /\ task'[p].final_bytes = png
                          /\ IF task[p].upload
                             THEN task'[p].pc = "submit"
                             ELSE /\ task'[p].pc = "done"
                                  /\ task'[p].result =
                                       InlinePart(<<"image", "png">>, Base64(png))
                  /\ format \in {"Png", "Jpeg"} =>
                       /\ task'[p].final_bytes = task[p].final_bytes
                       /\ task'[p].mime_str = MimeGuess(task[p].path)
                       /\ task'[p].result # Err("decode")]_vars
    /\ [] (\A p \in Procs :
             task[p].result = Err("decode") =>
               /\ NoNetwork(task[p]) /\ task[p].inserts = 0
               /\ MimeGuess(task[p].path)[1] = "image"
               /\ task[p].final_bytes[3] \notin {"Png", "Jpeg", "None"})

C14_Witness ==
    \E p, q \in Procs :
      /\ task[p].path = "scan.bmp" /\ task[p].upload /\ task[p].pc = "submit"
      /\ task[p].mime_str = <<"image", "png">>
      /\ task[p].final_bytes = EncodePng(FileBytes("scan.bmp", "Bmp"))
      /\ task[q].path = "scan.bmp" /\ task[q].result = Err("decode")
      /\ task[q].final_bytes = FileBytes("scan.bmp", "Bmp")

\* The list without its k-th entry (k = 0: the list itself).
Without(list, k) == SubSeq(list, 1, k - 1) \o SubSeq(list, k + 1, Len(list))

\* C15: for every pointer position and click, show_files gives back the list
\* it was given when mutate is FALSE, and else that list without at most one
\* entry: the retained attachments are the same records (path, mime, state)
\* in the same order. A step of the presenter that changes the list removes
\* exactly one entry and changes nothing else.
C15_ShowFilesFrame ==
    /\ [] (\A mutate \in BOOLEAN, hovered \in 0..Len(files), clicked \in BOOLEAN :
             LET out == show_files(files, mutate, hovered, clicked) IN
             /\ ~mutate => out = files
             /\ \E k \in 0..Len(files) : out = Without(files, k))
    /\ [][(files' # files /\ task' = task /\ added' = added) =>
            \E k \in 1..Len(files) : files' = Without(files, k)]_vars

C15_Witness ==
    /\ added = 2 /\ Len(files) = 1
    /\ files[1].id = 2 /\ files[1].state.tag = "Uploading"
    /\ show_files(files, FALSE, 1, TRUE) = files
    /\ show_files(files, TRUE, 1, TRUE) = << >>

\* C16: at most one call holds the cache lock; an entry is incomplete only
\* while the call that writes it holds the lock; a lookup never reads an
\* incomplete entry and a hit returns the name of the complete entry of its
\* path; a write changes the entry of the writer's path only, so that the
\* cache, a map, keeps one entry per path.
C16_Mutex ==
    /\ [] (Cardinality(Holders) <= 1)
    /\ [] (\A path \in DOMAIN GLOBAL_FILE_CACHE :
             GLOBAL_FILE_CACHE[path].state # "Active" =>
               \E p \in Procs :
                 /\ task[p].pc = "insert_half" /\ task[p].path = path
                 /\ GLOBAL_FILE_CACHE[path].name = task[p].file_handle)
    /\ [] (\A p \in Procs :
             task[p].pc = "lookup_locked" =>
               \A path \in DOMAIN GLOBAL_FILE_CACHE :
                 GLOBAL_FILE_CACHE[path].state = "Active")
    /\ [][\A p \in Procs :
            (task[p].pc = "lookup_locked" /\ Stepped(p)) =>
              /\ task'[p].state \in {"", "Active"}
              /\ task'[p].pc = "done" =>
                   /\ task'[p].state = "Active"
                   /\ task'[p].result = UploadedFile(GLOBAL_FILE_CACHE[task[p].path].name)
              /\ GLOBAL_FILE_CACHE' = GLOBAL_FILE_CACHE]_vars
    /\ [][GLOBAL_FILE_CACHE' # GLOBAL_FILE_CACHE =>
            \E p \in Holders :
              /\ Stepped(p)
              /\ DOMAIN GLOBAL_FILE_CACHE' = DOMAIN GLOBAL_FILE_CACHE \cup {task[p].path}
              /\ \A q \in DOMAIN GLOBAL_FILE_CACHE \ {task[p].path} :
                   GLOBAL_FILE_CACHE'[q] = GLOBAL_FILE_CACHE[q]]_vars

\* A lookup waits for the lock while the entry of its path is half written.
C16_Witness ==
    \E p, q \in Procs :
      /\ task[p].pc = "insert_half" /\ task[q].pc = "lookup"
      /\ task[q].path = task[p].path
      /\ GLOBAL_FILE_CACHE[task[p].path].state = "Partial"

\* C17 as stated: a transport error of the status fetch does not end the
\* conversion.
C17_TransportRetried ==
    \A p \in Procs : task[p].result # Err("transport")

\* C17, amended: a transport error of the status fetch ends the call in that
\* step with that error, whatever time has elapsed: no sleep, no further poll,
\* no cache write; a call sleeps only after a status answer that is neither
\* Active nor Failed.
C17_TransportFatal ==
    /\ [][\A p \in Procs :
            (task[p].pc = "poll" /\ Stepped(p) /\ task'[p].state = task[p].state)
            => /\ task'[p].pc = "done"
               /\ task'[p].result = Err("transport")
               /\ task'[p].polls = task[p].polls + 1
               /\ task'[p].sleeps = task[p].sleeps
               /\ GLOBAL_FILE_CACHE' = GLOBAL_FILE_CACHE]_vars
    /\ [][\A p \in Procs :
            task[p].result = Err("transport") => task'[p] = task[p]]_vars
    /\ [] (\A p \in Procs :
             /\ task[p].pc = "sleep" =>
                  task[p].state \in {"Processing", "StateUnspecified", "None", "Other"}
             /\ task[p].result = Err("transport") =>
                  task[p].submits = 1 /\ task[p].polls >= 1 /\ task[p].inserts = 0)

C17_Witness ==
    \E p \in Procs :
      /\ task[p].result = Err("transport")
      /\ task[p].polls = 2 /\ task[p].sleeps = 1
      /\ now = SLEEP_SECS
      /\ task[p].path \notin DOMAIN GLOBAL_FILE_CACHE

\* C18: a poll answered by a state other than Active, Failed, Processing,
\* Unspecified and absent does what a poll answered Processing does: more than
\* 300 seconds after the submission the call ends with a timeout error, and
\* else it sleeps until 2 seconds after the answer and polls again; the cache
\* is left as it is.
C18_UnknownState ==
    /\ [][\A p \in Procs :
            ( /\ task[p].pc = "poll" /\ Stepped(p)
              /\ task'[p].state \in {"Other", "Processing"} )
            => /\ task'[p].elapsed = now' - task[p].start_time
               /\ IF task'[p].elapsed > 300
                  THEN /\ task'[p].pc = "done"
                       /\ task'[p].result.kind = "Err"
                       /\ task'[p].result.err \in {"timeout", "timeout_unknown"}
                       /\ task'[p].sleeps = task[p].sleeps
                  ELSE /\ task'[p].pc = "sleep"
                       /\ task'[p].wake = now' + 2
                       /\ task'[p].sleeps = task[p].sleeps + 1
                       /\ task'[p].result = NoResult
               /\ task'[p].polls = task[p].polls + 1
               /\ task'[p].inserts = task[p].inserts
               /\ GLOBAL_FILE_CACHE' = GLOBAL_FILE_CACHE]_vars
    /\ [][\A p \in Procs :
            (task[p].pc = "sleep" /\ Stepped(p)) =>
              /\ task'[p].pc = "poll"
              /\ now >= task[p].wake
              /\ task'[p].polls = task[p].polls]_vars

\* One unknown answer in time and one late.
C18_Witness ==
    \E p, q \in Procs :
      /\ task[p].pc = "sleep" /\ task[p].state = "Other"
      /\ task[p].elapsed = 0 /\ task[p].wake = now + SLEEP_SECS
      /\ task[q].result = Err("timeout_unknown") /\ task[q].state = "Other"
      /\ task[q].elapsed = TIMEOUT_SECS + 1
      /\ task[q].path \notin DOMAIN GLOBAL_FILE_CACHE

\* C19: the submit is followed by the first poll with no sleep; a poll is
\* followed by the return or by one sleep, never directly by a poll; a sleep
\* ends, not before 2 seconds after the poll that preceded it, in the next
\* poll. So the n-th poll of an upload is made after n - 1 sleeps and not
\* before 2 * (n - 1) seconds after the submission.
C19_NoBusySpin ==
    /\ [][\A p \in Procs :
            (task[p].pc = "submit" /\ task'[p].pc = "poll") =>
              /\ task'[p].polls = 0 /\ task'[p].sleeps = 0
              /\ task'[p].start_time = now /\ now' = now]_vars
    /\ [][\A p \in Procs :
            (task[p].pc = "poll" /\ Stepped(p)) =>
              /\ task'[p].polls = task[p].polls + 1
              /\ \/ task'[p].pc = "done" /\ task'[p].sleeps = task[p].sleeps
                 \/ /\ task'[p].pc = "sleep"
                    /\ task'[p].sleeps = task[p].sleeps + 1
                    /\ task'[p].wake = now' + 2]_vars
    /\ [][\A p \in Procs :
            (task[p].pc = "sleep" /\ Stepped(p)) =>
              /\ task'[p].pc = "poll"
              /\ now >= task[p].start_time + task[p].elapsed + 2
              /\ task'[p].polls = task[p].polls
              /\ task'[p].sleeps = task[p].sleeps]_vars
    /\ [] (\A p \in Procs :
             /\ task[p].pc = "poll" =>
                  /\ task[p].sleeps = task[p].polls
                  /\ now >= task[p].start_time + 2 * task[p].polls
             /\ task[p].pc = "sleep" => task[p].sleeps = task[p].polls
             /\ task[p].polls > 0 =>
                  task[p].sleeps \in {task[p].polls - 1, task[p].polls})

C19_Witness ==
    \E p \in Procs :
      /\ task[p].pc = "poll" /\ task[p].polls = 3 /\ task[p].sleeps = 3
      /\ now = task[p].start_time + 3 * SLEEP_SECS

\* C20: the first step of a call is the stat, whatever the cache holds: it
\* ends the call with the io error or goes on to the size check, it looks
\* nothing up and it leaves the cache as it is; a lookup is made only by a
\* call whose stat has succeeded.
C20_StatFirst ==
    /\ [][\A p \in Procs :
            (task[p].pc = "idle" /\ Stepped(p)) => task'[p].pc = "stat"]_vars
    /\ [][\A p \in Procs :
            (task[p].pc = "stat" /\ Stepped(p)) =>
              /\ \/ task'[p].pc = "done" /\ task'[p].result = Err("io")
                 \/ task'[p].pc = "size" /\ task'[p].result = NoResult
              /\ task'[p].lookups = 0 /\ task'[p].reads = 0
              /\ GLOBAL_FILE_CACHE' = GLOBAL_FILE_CACHE]_vars
    /\ [] (\A p \in Procs :
             /\ task[p].lookups > 0 => task[p].pc \notin {"idle", "stat", "size"}
             /\ task[p].pc \in {"idle", "stat", "size"} =>
                  task[p].lookups = 0 /\ task[p].result = NoResult)

\* A call with upload = TRUE has failed at the stat; the cache holds the entry
\* of an upload of the same path, without expiration time.
C20_Witness ==
    \E p, q \in Procs :
      /\ ~poisoned
      /\ UploadedAndRecorded(task[q])
      /\ task[p].path = task[q].path /\ task[p].upload
      /\ task[p].result = Err("io")
      /\ task[p].lookups = 0 /\ task[p].reads = 0
      /\ GLOBAL_FILE_CACHE[task[p].path] = FileMeta(task[q].result.name, NoExp, "Active")

\* C21: a call with upload = FALSE makes no lookup, no insert, no submit and
\* no poll, and none of its steps changes the cache or the count of remote
\* files; whatever the cache holds for its path, it ends with the inline part
\* or with an error, never with the handle of a cached file.
C21_InlineFrame ==
    /\ [] (\A p \in Procs :
             (task[p].pc # "idle" /\ ~task[p].upload) =>
               /\ task[p].lookups = 0 /\ task[p].inserts = 0
               /\ NoNetwork(task[p]) /\ task[p].sleeps = 0
               /\ task[p].pc \in {"stat", "size", "read", "normalize", "done"}
               /\ task[p].result.kind \in {"none", "InlinePart", "Err"}
               /\ task[p].log = "")
    /\ [][\A p \in Procs :
            (task[p].pc # "idle" /\ ~task[p].upload /\ Stepped(p)) =>
              /\ GLOBAL_FILE_CACHE' = GLOBAL_FILE_CACHE
              /\ uploads' = uploads /\ now' = now]_vars

\* An inline call has succeeded for a path of which the cache holds an entry
\* without expiration time.
C21_Witness ==
    \E p, q \in Procs :
      /\ ~poisoned
      /\ UploadedAndRecorded(task[q])
      /\ GLOBAL_FILE_CACHE[task[q].path] = FileMeta(task[q].result.name, NoExp, "Active")
      /\ task[p].path = task[q].path /\ ~task[p].upload
      /\ task[p].result.kind = "InlinePart" /\ task[p].reads = 1
      /\ task[p].lookups = 0

\* The steps of a call between its lookup and its insert.
InFlight(t) == t.pc \in {"read", "normalize", "submit", "poll", "sleep", "insert"}

\* C22: a call holds the cache lock at none of the steps from its read to the
\* Active answer, and a lookup that finds no entry for its path goes on to the
\* read even while another call is uploading that path; the insert of a call
\* makes its own upload the entry of the path, whatever entry was there. So two
\* calls for one path that both read and both inserted have submitted one
\* upload each, under different remote names, and the path has one entry,
\* Active, of one of the two.
C22_NoDedup ==
    /\ [] (\A p \in Procs : InFlight(task[p]) => p \notin Holders)
    /\ [][\A p, q \in Procs :
            ( /\ p # q /\ InFlight(task[p]) /\ task[q].path = task[p].path
              /\ task[q].pc = "lookup_locked" /\ Stepped(q)
              /\ task[q].path \notin DOMAIN GLOBAL_FILE_CACHE )
            => task'[q].pc = "read"]_vars
    /\ [][\A p \in Procs :
            (task[p].pc = "insert_half" /\ Stepped(p)) =>
              /\ task'[p].result = UploadedFile(task[p].file_handle)
              /\ GLOBAL_FILE_CACHE'[task[p].path].name = task[p].file_handle
              /\ GLOBAL_FILE_CACHE'[task[p].path].state = "Active"
              /\ DOMAIN GLOBAL_FILE_CACHE' = DOMAIN GLOBAL_FILE_CACHE]_vars
    /\ [] (\A p, q \in Procs :
             ( /\ p # q /\ task[p].path = task[q].path
               /\ task[p].pc = "done" /\ task[p].reads = 1 /\ task[p].inserts = 1
               /\ task[q].pc = "done" /\ task[q].reads = 1 /\ task[q].inserts = 1 )
             => /\ task[p].submits = 1 /\ task[q].submits = 1
                /\ uploads = 2
                /\ task[p].result.kind = "UploadedFile"
                /\ task[q].result.kind = "UploadedFile"
                /\ task[p].result.name # task[q].result.name
                /\ GLOBAL_FILE_CACHE[task[p].path].state = "Active"
                /\ GLOBAL_FILE_CACHE[task[p].path].name
                     \in {task[p].result.name, task[q].result.name})

\* Both calls missed at time 0, and the upload submitted first was inserted
\* last.
C22_Witness ==
    \E p, q \in Procs :
      /\ p # q /\ task[p].path = task[q].path /\ now = 0
      /\ task[p].pc = "done" /\ task[p].reads = 1 /\ task[p].inserts = 1
      /\ task[q].pc = "done" /\ task[q].reads = 1 /\ task[q].inserts = 1
      /\ task[p].log = "" /\ task[q].log = ""
      /\ task[p].result = UploadedFile(1) /\ task[q].result = UploadedFile(2)
      /\ GLOBAL_FILE_CACHE[task[p].path].name = 1

\* C23: no step removes an entry from the cache; the only step of a call that
\* changes the cache is the one in which it returns the uploaded-file handle,
\* so a call that returns an error, of whatever kind, has inserted nothing and
\* the step in which it returns leaves the cache as it is.
C23_ErrorsLeaveCache ==
    /\ [][\A path \in DOMAIN GLOBAL_FILE_CACHE :
            path \in DOMAIN GLOBAL_FILE_CACHE']_vars
    /\ [][\A p \in Procs :
            Stepped(p) =>
              /\ task'[p].result.kind = "Err" => GLOBAL_FILE_CACHE' = GLOBAL_FILE_CACHE
              /\ task'[p].result.kind # "UploadedFile" =>
                   /\ GLOBAL_FILE_CACHE' = GLOBAL_FILE_CACHE
                   /\ task'[p].inserts = 0]_vars
    /\ [][(\A p \in Procs : ~Stepped(p)) =>
            GLOBAL_FILE_CACHE' = GLOBAL_FILE_CACHE]_vars
    /\ [] (\A p \in Procs :
             task[p].result.kind = "Err" =>
               /\ task[p].inserts = 0 /\ task[p].pc = "done"
               /\ task[p].result.err \in
                    {"too_large", "io", "decode", "unsupported", "upload",
                     "transport", "failed", "timeout", "timeout_unknown"})

\* A call has got the Failed answer for a path whose entry, of another call's
\* upload, is still in the cache.
C23_Witness ==
    \E p, q \in Procs :
      /\ UploadedAndRecorded(task[q])
      /\ task[p].path = task[q].path
      /\ task[p].result = Err("failed") /\ task[p].submits = 1
      /\ task[p].file_handle = NoName /\ task[p].polls = 2
      /\ GLOBAL_FILE_CACHE[task[p].path].name = task[q].result.name
      /\ uploads = 2

====
